---- MODULE Spec2Model ----
(***************************************************************************)
(* Model of es4/whatsapp_mine.py: the line-oriented chat parser            *)
(* (parse_chat_text, with its regular expressions and try_parse_dt) and    *)
(* the statistics engine (stats_for_messages, with avg and median), and    *)
(* the loop of main over the files of the folder.                          *)
(*                                                                         *)
(* A raw line is a sequence of lexemes; the raw text is the concatenation  *)
(* of the lexemes in order.  Every lexeme lies inside one character class  *)
(* of the program's regular expressions:                                   *)
(*   "[" "]" "," ":" "-"   the punctuation the patterns name               *)
(*   " "                   whitespace (\s)                                 *)
(*   a date lexeme         \d{1,2}[/.-]\d{1,2}[/.-]\d{2,4}                 *)
(*   a digit lexeme        \d{1,2}                                         *)
(*   "AM" "PM" "am" "pm"   the meridian alternatives                       *)
(*   a word                a run of letters                                *)
(* Two lexemes of the same class (two words, two digit groups) are never   *)
(* adjacent in an input line.  Inside a message text the lexeme "\n" is    *)
(* the line break the parser inserts.                                      *)
(*                                                                         *)
(* None is <<>>, a present value x is <<x>> (Python's None / a value).     *)
(* A datetime is the number of seconds since 2000-01-01 00:00:00.          *)
(***************************************************************************)
EXTENDS Integers, Sequences, FiniteSets, TLC

None == <<>>
Some(x) == <<x>>

\* MY_NAMES = {"Giada :)"} as the file sets it, the name in lexemes
MY_NAMES == {<<"Giada", " ", ":", ")">>}

\* REACTION_CUTOFF_SEC = 6 * 3600 as the file sets it
REACTION_CUTOFF_DEFAULT == 21600

\* TOP_WORDS
TOP_WORDS == 100

\* ------------------------------------------------------------------------
\* Lexemes
\* ------------------------------------------------------------------------

\* date lexemes: a, b are the first and second number, y the year as written
\* with ylen digits, sep1 and sep2 the two separators
DateLex ==
    ("01.02.2020" :> [a |-> 1,  b |-> 2,  y |-> 2020, ylen |-> 4, sep1 |-> ".", sep2 |-> "."]) @@
    ("31.02.2020" :> [a |-> 31, b |-> 2,  y |-> 2020, ylen |-> 4, sep1 |-> ".", sep2 |-> "."]) @@
    ("01/02/23"   :> [a |-> 1,  b |-> 2,  y |-> 23,   ylen |-> 2, sep1 |-> "/", sep2 |-> "/"]) @@
    ("01/13/23"   :> [a |-> 1,  b |-> 13, y |-> 23,   ylen |-> 2, sep1 |-> "/", sep2 |-> "/"]) @@
    ("01-02-23"   :> [a |-> 1,  b |-> 2,  y |-> 23,   ylen |-> 2, sep1 |-> "-", sep2 |-> "-"])

\* digit lexemes: v the value, len the number of digits
DigitLex ==
    ("00" :> [v |-> 0,  len |-> 2]) @@
    ("05" :> [v |-> 5,  len |-> 2]) @@
    ("06" :> [v |-> 6,  len |-> 2]) @@
    ("09" :> [v |-> 9,  len |-> 2]) @@
    ("10" :> [v |-> 10, len |-> 2]) @@
    ("25" :> [v |-> 25, len |-> 2]) @@
    ("9"  :> [v |-> 9,  len |-> 1])

Meridian == {"AM", "PM", "am", "pm"}

IsDate(t) == t \in DOMAIN DateLex
IsDigits12(t) == t \in DOMAIN DigitLex
IsDigits2(t) == t \in DOMAIN DigitLex /\ DigitLex[t].len = 2

\* the lexeme at position i of the line, "" past either end
At(line, i) == IF i >= 1 /\ i <= Len(line) THEN line[i] ELSE ""

\* line[i..] as a sequence (empty when i is past the end)
From(line, i) == SubSeq(line, i, Len(line))

\* \s* : the first position >= i that holds no whitespace
RECURSIVE SkipWs(_, _)
SkipWs(line, i) ==
    IF i <= Len(line) /\ line[i] = " " THEN SkipWs(line, i + 1) ELSE i

\* the first position >= i that holds a colon, 0 when there is none
RECURSIVE FindColon(_, _)
FindColon(line, i) ==
    IF i > Len(line) THEN 0
    ELSE IF line[i] = ":" THEN i
    ELSE FindColon(line, i + 1)

\* str.strip()
RECURSIVE lstrip(_)
lstrip(s) == IF s # <<>> /\ Head(s) = " " THEN lstrip(Tail(s)) ELSE s

RECURSIVE rstrip(_)
rstrip(s) ==
    IF s # <<>> /\ s[Len(s)] = " " THEN rstrip(SubSeq(s, 1, Len(s) - 1)) ELSE s

strip(s) == rstrip(lstrip(s))

\* re.sub(r"\s+", " ", s): every run of whitespace becomes one blank
RECURSIVE CollapseWs(_)
CollapseWs(s) ==
    IF s = <<>> THEN <<>>
    ELSE IF Head(s) = " " THEN <<" ">> \o CollapseWs(lstrip(s))
    ELSE <<Head(s)>> \o CollapseWs(Tail(s))

\* ------------------------------------------------------------------------
\* Regular expressions
\* ------------------------------------------------------------------------

NoMatch == [ok |-> FALSE, date |-> "", time |-> <<>>, sender |-> <<>>, text |-> <<>>]

\* \d{1,2}:\d{2}(?::\d{2})? at position i: the position after it, 0 = no match
TimeCoreEnd(line, i) ==
    IF IsDigits12(At(line, i)) /\ At(line, i + 1) = ":" /\ IsDigits2(At(line, i + 2))
    THEN IF At(line, i + 3) = ":" /\ IsDigits2(At(line, i + 4)) THEN i + 5 ELSE i + 3
    ELSE 0

\* the separator between date and time, (?:,\s+|\s+) and ,?\s+ alike, at
\* position i: the position of the time, 0 = no match
DateSepEnd(line, i) ==
    LET j == IF At(line, i) = "," THEN i + 1 ELSE i
        k == SkipWs(line, j)
    IN  IF k > j THEN k ELSE 0

NoStamp == [ok |-> FALSE, date |-> "", time |-> <<>>, close |-> 0, end |-> 0]

\* ^\[(?P<date>...)(?:,\s+|\s+)(?P<time>...\s*(?:AM|PM|am|pm)?)\]
\* close is the position after the closing bracket, end the position after
\* the whitespace that follows it
BracketStamp(line) ==
    IF At(line, 1) = "[" /\ IsDate(At(line, 2))
    THEN LET t == DateSepEnd(line, 3)
             e == IF t = 0 THEN 0 ELSE TimeCoreEnd(line, t)
             w == SkipWs(line, e)
             c == IF At(line, w) \in Meridian THEN w + 1 ELSE w
         IN  IF e # 0 /\ At(line, c) = "]"
             THEN [ok |-> TRUE, date |-> line[2], time |-> SubSeq(line, t, c - 1),
                   close |-> c + 1, end |-> SkipWs(line, c + 1)]
             ELSE NoStamp
    ELSE NoStamp

\* ^(?P<date>...),?\s+(?P<time>...\s*(?:AM|PM|am|pm)?)\s+-\s+
\* close is the position after the dash, end the position after the
\* whitespace that follows it; without a meridian the time group takes the
\* whitespace before the dash except the last blank, which \s+ needs
DashStamp(line) ==
    IF IsDate(At(line, 1))
    THEN LET t == DateSepEnd(line, 2)
             e == IF t = 0 THEN 0 ELSE TimeCoreEnd(line, t)
             w == SkipWs(line, e)
             mer == At(line, w) \in Meridian
             d == IF mer THEN SkipWs(line, w + 1) ELSE w
             tend == IF mer THEN w ELSE d - 2
             wsok == IF mer THEN d > w + 1 ELSE w > e
         IN  IF e # 0 /\ wsok /\ At(line, d) = "-"
             THEN [ok |-> TRUE, date |-> line[1], time |-> SubSeq(line, t, tend),
                   close |-> d + 1, end |-> SkipWs(line, d + 1)]
             ELSE NoStamp
    ELSE NoStamp

\* \s+(?P<sender>[^:]+):\s*(?P<text>.*)$ after a stamp; \s+ takes all the
\* whitespace and gives one blank back to the sender group when the colon
\* follows it directly
SenderText(line, stamp) ==
    LET p == stamp.end
        c == FindColon(line, p)
        s == IF c = p THEN p - 1 ELSE p
    IN  IF ~stamp.ok \/ p = stamp.close \/ c = 0 \/ (c = p /\ p - 1 = stamp.close)
        THEN NoMatch
        ELSE [ok |-> TRUE, date |-> stamp.date, time |-> stamp.time,
              sender |-> SubSeq(line, s, c - 1),
              text |-> From(line, SkipWs(line, c + 1))]

\* \s+(?P<text>.*)$ after a stamp
SystemText(line, stamp) ==
    IF ~stamp.ok \/ stamp.end = stamp.close
    THEN NoMatch
    ELSE [ok |-> TRUE, date |-> stamp.date, time |-> stamp.time,
          sender |-> <<>>, text |-> From(line, stamp.end)]

\* the two start-of-message patterns, in the order of the list
PATTERNS(line) ==
    << SenderText(line, DashStamp(line)), SenderText(line, BracketStamp(line)) >>

\* the two system patterns, in the order of the list
SYSTEM_PATTERNS(line) ==
    << SystemText(line, DashStamp(line)), SystemText(line, BracketStamp(line)) >>

\* ^\[date(?:,\s+|\s+)time\]\s*$
BRACKET_TS_ONLY(line) ==
    LET st == BracketStamp(line)
    IN  IF st.ok /\ st.end > Len(line)
        THEN [ok |-> TRUE, date |-> st.date, time |-> st.time,
              sender |-> <<>>, text |-> <<>>]
        ELSE NoMatch

\* mutant of SENDER_ONLY: the whitespace after the colon stays in the text
SENDER_ONLY_KeepWs(line) ==
    LET c == FindColon(line, 1)
    IN  IF c >= 2
        THEN [ok |-> TRUE, date |-> "", time |-> <<>>,
              sender |-> SubSeq(line, 1, c - 1),
              text |-> From(line, c + 1)]
        ELSE NoMatch

\* ^(?P<sender>[^:]+):\s*(?P<text>.*)$
SENDER_ONLY(line) ==
    LET c == FindColon(line, 1)
    IN  IF c >= 2
        THEN [ok |-> TRUE, date |-> "", time |-> <<>>,
              sender |-> SubSeq(line, 1, c - 1),
              text |-> From(line, SkipWs(line, c + 1))]
        ELSE NoMatch

\* for pat in pats: m = pat.match(line); if m: break
\* the first match of the list, NoMatch when none matches
FirstMatch(ms) ==
    IF ms[1].ok THEN ms[1] ELSE IF ms[2].ok THEN ms[2] ELSE NoMatch

\* ------------------------------------------------------------------------
\* Date and time
\* ------------------------------------------------------------------------

\* one strptime format: order "dm" (%d first) or "md" (%m first), the date
\* separator, the year directive (2 = %y, 4 = %Y), the clock (24 = %H,
\* 12 = %I ... %p) and whether :%S is part of it
Fmt(o, sp, yl, cl, sc) == [order |-> o, sep |-> sp, ylen |-> yl, clock |-> cl, secs |-> sc]

DT_FORMATS == <<
    Fmt("dm", "/", 2, 24, FALSE), Fmt("dm", "/", 4, 24, FALSE),
    Fmt("dm", "/", 2, 24, TRUE),  Fmt("dm", "/", 4, 24, TRUE),
    Fmt("dm", ".", 2, 24, FALSE), Fmt("dm", ".", 4, 24, FALSE),
    Fmt("dm", ".", 2, 24, TRUE),  Fmt("dm", ".", 4, 24, TRUE),
    Fmt("dm", "-", 2, 24, FALSE), Fmt("dm", "-", 4, 24, FALSE),
    Fmt("dm", "-", 2, 24, TRUE),  Fmt("dm", "-", 4, 24, TRUE),
    Fmt("md", "/", 2, 24, FALSE), Fmt("md", "/", 4, 24, FALSE),
    Fmt("md", "/", 2, 24, TRUE),  Fmt("md", "/", 4, 24, TRUE),
    Fmt("dm", "/", 2, 12, FALSE), Fmt("dm", "/", 4, 12, FALSE),
    Fmt("dm", "/", 2, 12, TRUE),  Fmt("dm", "/", 4, 12, TRUE),
    Fmt("md", "/", 2, 12, FALSE), Fmt("md", "/", 4, 12, FALSE),
    Fmt("md", "/", 2, 12, TRUE),  Fmt("md", "/", 4, 12, TRUE),
    Fmt("dm", ".", 2, 12, FALSE), Fmt("dm", ".", 4, 12, FALSE),
    Fmt("dm", ".", 2, 12, TRUE),  Fmt("dm", ".", 4, 12, TRUE) >>

IsLeap(y) == (y % 4 = 0) /\ ((y % 100 # 0) \/ (y % 400 = 0))

DaysInMonth(y, m) ==
    IF m = 2 THEN (IF IsLeap(y) THEN 29 ELSE 28)
    ELSE IF m \in {4, 6, 9, 11} THEN 30 ELSE 31

RECURSIVE DaysBeforeMonth(_, _)
DaysBeforeMonth(y, m) ==
    IF m = 1 THEN 0 ELSE DaysBeforeMonth(y, m - 1) + DaysInMonth(y, m - 1)

\* datetime.toordinal(): 1 for 0001-01-01
Ordinal(y, m, d) ==
    LET y1 == y - 1
    IN  y1 * 365 + (y1 \div 4) - (y1 \div 100) + (y1 \div 400)
        + DaysBeforeMonth(y, m) + d

\* the datetime as seconds since 2000-01-01 00:00:00
DateTime(y, m, d, hh, mm, ss) ==
    (Ordinal(y, m, d) - Ordinal(2000, 1, 1)) * 86400 + hh * 3600 + mm * 60 + ss

\* datetime.hour
Hour(ts) == (ts % 86400) \div 3600

\* datetime.strptime(s, fmt): Some(datetime), None for ValueError
strptime(s, fmt) ==
    LET n == 5 + (IF fmt.secs THEN 2 ELSE 0) + (IF fmt.clock = 12 THEN 2 ELSE 0)
        mpos == IF fmt.secs THEN 9 ELSE 7
        shape == /\ Len(s) = n
                 /\ IsDate(s[1]) /\ s[2] = " "
                 /\ IsDigits12(s[3]) /\ s[4] = ":" /\ IsDigits12(s[5])
                 /\ (fmt.secs => (s[6] = ":" /\ IsDigits12(s[7])))
                 /\ (fmt.clock = 12 => (s[mpos - 1] = " " /\ s[mpos] \in Meridian))
    IN  IF ~shape THEN None
        ELSE LET dl == DateLex[s[1]]
                 day == IF fmt.order = "dm" THEN dl.a ELSE dl.b
                 mon == IF fmt.order = "dm" THEN dl.b ELSE dl.a
                 year == IF fmt.ylen = 4 THEN dl.y
                         ELSE IF dl.y < 69 THEN 2000 + dl.y ELSE 1900 + dl.y
                 h == DigitLex[s[3]].v
                 mi == DigitLex[s[5]].v
                 se == IF fmt.secs THEN DigitLex[s[7]].v ELSE 0
                 pm == fmt.clock = 12 /\ s[mpos] \in {"PM", "pm"}
                 hour == IF fmt.clock = 24 THEN h ELSE (h % 12) + (IF pm THEN 12 ELSE 0)
                 valid == /\ dl.sep1 = fmt.sep /\ dl.sep2 = fmt.sep
                          /\ dl.ylen = fmt.ylen
                          /\ year >= 1
                          /\ mon >= 1 /\ mon <= 12
                          /\ day >= 1 /\ day <= DaysInMonth(year, mon)
                          /\ (IF fmt.clock = 24 THEN h >= 0 /\ h <= 23
                                                ELSE h >= 1 /\ h <= 12)
                          /\ mi <= 59 /\ se <= 59
             IN  IF valid THEN Some(DateTime(year, mon, day, hour, mi, se)) ELSE None

\* for fmt in DT_FORMATS: try strptime; the first success, else None
RECURSIVE TryFormats(_, _)
TryFormats(s, i) ==
    IF i > Len(DT_FORMATS) THEN None
    ELSE LET r == strptime(s, DT_FORMATS[i])
         IN  IF r # None THEN r ELSE TryFormats(s, i + 1)

try_parse_dt(date_str, time_str) ==
    TryFormats(CollapseWs(strip(<<date_str, " ">> \o time_str)), 1)

\* ------------------------------------------------------------------------
\* parse_chat_text
\* ------------------------------------------------------------------------

\* the dict built for a message: ts is None or Some(datetime), sender is
\* None or Some(lexemes), text is a sequence of lexemes
Message(ts, sender, text, is_system) ==
    [ts |-> ts, sender |-> sender, text |-> text, is_system |-> is_system]

\* mutant of Flush: the flushed message replaces the list
FlushReplace(msgs, cur) == IF cur # None THEN <<cur[1]>> ELSE msgs

\* mutant of Flush: the flushed message goes to the front of the list
FlushPrepend(msgs, cur) == IF cur # None THEN <<cur[1]>> \o msgs ELSE msgs

\* if current is not None: messages.append(current)
Flush(msgs, cur) == IF cur # None THEN Append(msgs, cur[1]) ELSE msgs

\* mutant of BindPending: the system branch leaves pending_ts set
BindPendingKeepPending(st, line) ==
    LET m2 == SENDER_ONLY(line)
    IN  IF m2.ok
        THEN [messages |-> Flush(st.messages, st.current),
              current |-> Some(Message(st.pending_ts, Some(strip(m2.sender)),
                                       m2.text, FALSE)),
              pending_ts |-> None]
        ELSE [messages |-> Flush(st.messages, st.current),
              current |-> Some(Message(st.pending_ts, None, line, TRUE)),
              pending_ts |-> st.pending_ts]

\* 1) a timestamp is pending: bind this line as sender/message or as system text
BindPending(st, line) ==
    LET m2 == SENDER_ONLY(line)
    IN  IF m2.ok
        THEN [messages |-> Flush(st.messages, st.current),
              current |-> Some(Message(st.pending_ts, Some(strip(m2.sender)),
                                       m2.text, FALSE)),
              pending_ts |-> None]
        ELSE [messages |-> Flush(st.messages, st.current),
              current |-> Some(Message(st.pending_ts, None, line, TRUE)),
              pending_ts |-> None]

\* mutant of TimestampOnly: the open message is flushed and closed at once
TimestampOnlyFlushClose(st, m_ts) ==
    LET ts == try_parse_dt(m_ts.date, m_ts.time)
    IN  IF ts # None
        THEN [messages |-> Flush(st.messages, st.current), current |-> None,
              pending_ts |-> ts]
        ELSE st

\* mutant of TimestampOnly: the open message is appended and stays open
TimestampOnlyFlushKeep(st, m_ts) ==
    LET ts == try_parse_dt(m_ts.date, m_ts.time)
    IN  IF ts # None
        THEN [messages |-> Flush(st.messages, st.current), current |-> st.current,
              pending_ts |-> ts]
        ELSE st

\* mutant of TimestampOnly: the open message is closed without being appended
TimestampOnlyDropCurrent(st, m_ts) ==
    LET ts == try_parse_dt(m_ts.date, m_ts.time)
    IN  IF ts # None THEN [st EXCEPT !.pending_ts = ts, !.current = None] ELSE st

\* 2) a bracketed timestamp-only line: pending_ts is set when it resolves
TimestampOnly(st, m_ts) ==
    LET ts == try_parse_dt(m_ts.date, m_ts.time)
    IN  IF ts # None THEN [st EXCEPT !.pending_ts = ts] ELSE st

\* mutant of OpenHeader: a header whose date/time does not resolve is skipped
OpenHeaderSkipUnresolved(st, matched, is_system) ==
    LET ts == try_parse_dt(matched.date, matched.time)
        sender == IF ~is_system THEN matched.sender ELSE <<>>
    IN  IF ts = None THEN st
        ELSE [messages |-> Flush(st.messages, st.current),
              current |-> Some(Message(ts,
                                  IF sender # <<>> THEN Some(strip(sender)) ELSE None,
                                  matched.text, is_system)),
              pending_ts |-> st.pending_ts]

\* 3) a one-line header: flush, then open the message it describes
OpenHeader(st, matched, is_system) ==
    LET ts == try_parse_dt(matched.date, matched.time)
        sender == IF ~is_system THEN matched.sender ELSE <<>>
    IN  [messages |-> Flush(st.messages, st.current),
         current |-> Some(Message(ts,
                                  IF sender # <<>> THEN Some(strip(sender)) ELSE None,
                                  matched.text, is_system)),
         pending_ts |-> st.pending_ts]

\* mutant of Continuation: the line is appended without the line break
ContinuationNoBreak(st, line) ==
    IF st.current # None
    THEN [st EXCEPT !.current = Some([st.current[1] EXCEPT !.text = @ \o line])]
    ELSE st

\* a continuation line: current["text"] += "\n" + line, dropped without current
Continuation(st, line) ==
    IF st.current # None
    THEN [st EXCEPT !.current = Some([st.current[1] EXCEPT !.text = @ \o <<"\n">> \o line])]
    ELSE st

\* mutant of Rule: the bracket-only test comes before the pending test
RuleTsOnlyFirst(pending, line) ==
    IF BRACKET_TS_ONLY(line).ok THEN "ts_only"
    ELSE IF pending # None THEN "pending"
    ELSE IF FirstMatch(PATTERNS(line)).ok THEN "authored"
    ELSE IF FirstMatch(SYSTEM_PATTERNS(line)).ok THEN "system"
    ELSE "continuation"

\* which branch of the loop body a line takes, given pending_ts:
\* "pending" (1), "ts_only" (2), "authored" / "system" (3), "continuation"
Rule(pending, line) ==
    IF pending # None THEN "pending"
    ELSE IF BRACKET_TS_ONLY(line).ok THEN "ts_only"
    ELSE IF FirstMatch(PATTERNS(line)).ok THEN "authored"
    ELSE IF FirstMatch(SYSTEM_PATTERNS(line)).ok THEN "system"
    ELSE "continuation"

\* the body of the loop over the lines, for one line
ParseLine(st, line) ==
    LET r == Rule(st.pending_ts, line)
    IN  IF r = "pending" THEN BindPending(st, line)
        ELSE IF r = "ts_only" THEN TimestampOnly(st, BRACKET_TS_ONLY(line))
        ELSE IF r = "authored" THEN OpenHeader(st, FirstMatch(PATTERNS(line)), FALSE)
        ELSE IF r = "system" THEN OpenHeader(st, FirstMatch(SYSTEM_PATTERNS(line)), TRUE)
        ELSE Continuation(st, line)

\* the state before the first line
ParseStart == [messages |-> <<>>, current |-> None, pending_ts |-> None]

\* the state after the loop has read the lines
RECURSIVE ParseLines(_, _)
ParseLines(st, lines) ==
    IF lines = <<>> THEN st ELSE ParseLines(ParseLine(st, Head(lines)), Tail(lines))

\* mutant of FilterResolved: the filter keeps every message
FilterResolvedKeepAll(msgs) == msgs

\* messages = [m for m in messages if m["ts"] is not None]
RECURSIVE FilterResolved(_)
FilterResolved(msgs) ==
    IF msgs = <<>> THEN <<>>
    ELSE IF Head(msgs).ts # None THEN <<Head(msgs)>> \o FilterResolved(Tail(msgs))
    ELSE FilterResolved(Tail(msgs))

\* the whole function: the loop, the final flush, the filter
parse_chat_text(content) ==
    LET st == ParseLines(ParseStart, content)
    IN  FilterResolved(Flush(st.messages, st.current))

\* ------------------------------------------------------------------------
\* stats_for_messages
\* ------------------------------------------------------------------------

\* the letter runs of the vocabulary (WORD_RE matches each as one word)
Words == {"Alice", "Bob", "Carol", "Hello", "hello", "hi", "there", "how",
          "are", "you", "added"}

\* str.lower() on one lexeme
lower(t) ==
    IF t = "Alice" THEN "alice" ELSE IF t = "Bob" THEN "bob"
    ELSE IF t = "Carol" THEN "carol" ELSE IF t = "Hello" THEN "hello"
    ELSE IF t = "AM" THEN "am" ELSE IF t = "PM" THEN "pm" ELSE t

\* WORD_RE.findall(text.lower()): the lower-cased letter runs, in order
RECURSIVE findall_words(_)
findall_words(text) ==
    IF text = <<>> THEN <<>>
    ELSE IF Head(text) \in Words \cup Meridian
         THEN <<lower(Head(text))>> \o findall_words(Tail(text))
         ELSE findall_words(Tail(text))

\* non_system = [m for m in messages if not m["is_system"] and m["sender"]]
\* (a sender of None or "" is falsy)
RECURSIVE NonSystem(_)
NonSystem(msgs) ==
    IF msgs = <<>> THEN <<>>
    ELSE LET m == Head(msgs)
         IN  IF ~m.is_system /\ m.sender # None /\ m.sender[1] # <<>>
             THEN <<m>> \o NonSystem(Tail(msgs))
             ELSE NonSystem(Tail(msgs))

\* [m["ts"] for m in messages if m["ts"]]: the messages whose ts is not None
RECURSIVE WithTs(_)
WithTs(msgs) ==
    IF msgs = <<>> THEN <<>>
    ELSE IF Head(msgs).ts # None THEN <<Head(msgs)>> \o WithTs(Tail(msgs))
    ELSE WithTs(Tail(msgs))

\* the number of elements of seq equal to x
RECURSIVE CountOf(_, _)
CountOf(seq, x) ==
    IF seq = <<>> THEN 0
    ELSE (IF Head(seq) = x THEN 1 ELSE 0) + CountOf(Tail(seq), x)

\* the distinct elements of seq in order of first appearance
RECURSIVE FirstSeen(_, _)
FirstSeen(seq, seen) ==
    IF seq = <<>> THEN <<>>
    ELSE IF Head(seq) \in seen THEN FirstSeen(Tail(seq), seen)
    ELSE <<Head(seq)>> \o FirstSeen(Tail(seq), seen \cup {Head(seq)})

\* collections.Counter(seq): <<key, count>> pairs in insertion order
Counter(seq) ==
    LET keys == FirstSeen(seq, {})
    IN  [i \in 1..Len(keys) |-> <<keys[i], CountOf(seq, keys[i])>>]

\* insert pair p into a list sorted by descending count, after its equals
RECURSIVE InsertByCount(_, _)
InsertByCount(sorted, p) ==
    IF sorted = <<>> THEN <<p>>
    ELSE IF Head(sorted)[2] >= p[2] THEN <<Head(sorted)>> \o InsertByCount(Tail(sorted), p)
    ELSE <<p>> \o sorted

RECURSIVE SortByCount(_, _)
SortByCount(pairs, acc) ==
    IF pairs = <<>> THEN acc
    ELSE SortByCount(Tail(pairs), InsertByCount(acc, Head(pairs)))

\* mutant of most_common: the pairs are not sorted
most_common_unsorted(counter, n) ==
    SubSeq(counter, 1, IF Len(counter) < n THEN Len(counter) ELSE n)

\* Counter.most_common(n): descending count, equal counts in insertion order
most_common(counter, n) ==
    LET srt == SortByCount(counter, <<>>)
    IN  SubSeq(srt, 1, IF Len(srt) < n THEN Len(srt) ELSE n)

\* insert message m into a list sorted by ts, after the messages of equal ts
RECURSIVE InsertByTs(_, _)
InsertByTs(sorted, m) ==
    IF sorted = <<>> THEN <<m>>
    ELSE IF Head(sorted).ts[1] <= m.ts[1] THEN <<Head(sorted)>> \o InsertByTs(Tail(sorted), m)
    ELSE <<m>> \o sorted

RECURSIVE SortByTs(_, _)
SortByTs(msgs, acc) ==
    IF msgs = <<>> THEN acc
    ELSE SortByTs(Tail(msgs), InsertByTs(acc, Head(msgs)))

\* mutant of sorted_by_ts: the list is left in file order
sorted_not(msgs) == msgs

\* sorted(non_system, key=lambda x: x["ts"]): stable
sorted_by_ts(msgs) == SortByTs(msgs, <<>>)

\* " ".join(m["text"] for m in non_system)
RECURSIVE join_text(_)
join_text(msgs) ==
    IF msgs = <<>> THEN <<>>
    ELSE IF Len(msgs) = 1 THEN msgs[1].text
    ELSE msgs[1].text \o <<" ">> \o join_text(Tail(msgs))

RECURSIVE MinOf(_)
MinOf(xs) ==
    IF Len(xs) = 1 THEN xs[1]
    ELSE LET r == MinOf(Tail(xs)) IN IF r < xs[1] THEN r ELSE xs[1]

RECURSIVE MaxOf(_)
MaxOf(xs) ==
    IF Len(xs) = 1 THEN xs[1]
    ELSE LET r == MaxOf(Tail(xs)) IN IF r > xs[1] THEN r ELSE xs[1]

\* mutant of within_cutoff: the comparison is strict
within_cutoff_strict(dt_sec, cutoff) ==
    IF cutoff = None THEN TRUE ELSE dt_sec < cutoff[1]

\* return True if REACTION_CUTOFF_SEC is None else (dt_sec <= REACTION_CUTOFF_SEC)
within_cutoff(dt_sec, cutoff) ==
    IF cutoff = None THEN TRUE ELSE dt_sec <= cutoff[1]

\* mutant of ReactPair: every change of sender is a sample of the second side
ReactPairAnySwitch(acc, prev, cur, my, cutoff) ==
    LET dt_sec == cur.ts[1] - prev.ts[1]
        cur_me == cur.sender[1] \in my
    IN  IF dt_sec < 0 THEN acc
        ELSE IF ~within_cutoff(dt_sec, cutoff) THEN acc
        ELSE IF prev.sender = cur.sender THEN acc
        ELSE IF cur_me THEN [acc EXCEPT !.me_react = Append(@, dt_sec)]
        ELSE [acc EXCEPT !.them_react = Append(@, dt_sec)]

\* mutant of ReactPair: the two sides are exchanged
ReactPairSwapped(acc, prev, cur, my, cutoff) ==
    LET dt_sec == cur.ts[1] - prev.ts[1]
        prev_me == prev.sender[1] \in my
        cur_me == cur.sender[1] \in my
    IN  IF dt_sec < 0 THEN acc
        ELSE IF ~within_cutoff(dt_sec, cutoff) THEN acc
        ELSE IF ~prev_me /\ cur_me
             THEN [acc EXCEPT !.them_react = Append(@, dt_sec)]
        ELSE IF prev_me /\ ~cur_me
             THEN [acc EXCEPT !.me_react = Append(@, dt_sec)]
        ELSE acc

\* one turn of the loop over zip(non_system_sorted, non_system_sorted[1:]):
\* acc is [me_react, them_react]
ReactPair(acc, prev, cur, my, cutoff) ==
    LET dt_sec == cur.ts[1] - prev.ts[1]
        prev_me == prev.sender[1] \in my
        cur_me == cur.sender[1] \in my
    IN  IF dt_sec < 0 THEN acc
        ELSE IF ~within_cutoff(dt_sec, cutoff) THEN acc
        ELSE IF ~prev_me /\ cur_me
             THEN [acc EXCEPT !.me_react = Append(@, dt_sec)]
        ELSE IF prev_me /\ ~cur_me
             THEN [acc EXCEPT !.them_react = Append(@, dt_sec)]
        ELSE acc

RECURSIVE ReactLoop(_, _, _, _, _)
ReactLoop(acc, srt, i, my, cutoff) ==
    IF i >= Len(srt) THEN acc
    ELSE ReactLoop(ReactPair(acc, srt[i], srt[i + 1], my, cutoff), srt, i + 1, my, cutoff)

\* mutant of TotalMsgs: every message is counted
TotalMsgsAll(msgs) == Len(msgs)

\* total_msgs = len(non_system)
TotalMsgs(msgs) == Len(NonSystem(msgs))

\* mutant of Ratio: the guard tests sent
RatioSentPositive(sent, received) == IF sent > 0 THEN Some(<<sent, received>>) ELSE None

\* ratio = (sent / received) if received > 0 else None, the quotient kept as
\* the pair <<sent, received>>
Ratio(sent, received) == IF received > 0 THEN Some(<<sent, received>>) ELSE None

\* sum(xs)
RECURSIVE SumOf(_)
SumOf(xs) == IF xs = <<>> THEN 0 ELSE Head(xs) + SumOf(Tail(xs))

\* avg: (sum(xs) / len(xs)) if xs else None, the quotient kept as the pair
\* <<sum, len>>
avg(xs) == IF xs # <<>> THEN Some(<<SumOf(xs), Len(xs)>>) ELSE None

\* insert number x into a sorted list
RECURSIVE InsertNum(_, _)
InsertNum(sorted, x) ==
    IF sorted = <<>> THEN <<x>>
    ELSE IF Head(sorted) <= x THEN <<Head(sorted)>> \o InsertNum(Tail(sorted), x)
    ELSE <<x>> \o sorted

\* sorted(xs) for a list of numbers
RECURSIVE SortNums(_, _)
SortNums(xs, acc) ==
    IF xs = <<>> THEN acc ELSE SortNums(Tail(xs), InsertNum(acc, Head(xs)))

\* mutant of median: the list is not sorted
median_unsorted(xs) ==
    IF xs = <<>> THEN None
    ELSE LET xs2 == xs
             n == Len(xs2)
             mid == n \div 2
         IN  IF n % 2 = 1 THEN Some(<<xs2[mid + 1], 1>>)
             ELSE Some(<<xs2[mid] + xs2[mid + 1], 2>>)

\* median: the quotient kept as a pair, <<xs2[mid], 1>> for an odd length
\* and <<xs2[mid - 1] + xs2[mid], 2>> for 0.5 * (xs2[mid - 1] + xs2[mid]);
\* sequences are 1-based, so Python's xs2[mid] is xs2[mid + 1] here
median(xs) ==
    IF xs = <<>> THEN None
    ELSE LET xs2 == SortNums(xs, <<>>)
             n == Len(xs2)
             mid == n \div 2
         IN  IF n % 2 = 1 THEN Some(<<xs2[mid + 1], 1>>)
             ELSE Some(<<xs2[mid] + xs2[mid + 1], 2>>)

\* the body of stats_for_messages; cutoff is REACTION_CUTOFF_SEC
stats_for_messages(msgs, my_names_arg, cutoff) ==
    LET non_system == NonSystem(msgs)
        with_ts == WithTs(msgs)
        all_ts == IF non_system # <<>>
                  THEN [i \in 1..Len(non_system) |-> non_system[i].ts[1]]
                  ELSE [i \in 1..Len(with_ts) |-> with_ts[i].ts[1]]
        first_ts == IF all_ts # <<>> THEN Some(MinOf(all_ts)) ELSE None
        last_ts == IF all_ts # <<>> THEN Some(MaxOf(all_ts)) ELSE None
        total_msgs == TotalMsgs(msgs)
        sender_counts == Counter([i \in 1..Len(non_system) |-> non_system[i].sender[1]])
        guess == my_names_arg = {} /\ sender_counts # <<>>
        guessed_me == IF guess THEN Some(most_common(sender_counts, 1)[1][1]) ELSE None
        my == IF guess THEN {guessed_me[1]} ELSE my_names_arg
        sent == Cardinality({i \in 1..Len(non_system) : non_system[i].sender[1] \in my})
        received == total_msgs - sent
        words == findall_words(join_text(non_system))
        react == ReactLoop([me_react |-> <<>>, them_react |-> <<>>],
                           sorted_by_ts(non_system), 1, my, cutoff)
    IN  [guessed_me |-> guessed_me,
         my_names |-> my,
         first_ts |-> first_ts,
         last_ts |-> last_ts,
         span_sec |-> IF all_ts # <<>> THEN Some(last_ts[1] - first_ts[1]) ELSE None,
         total_msgs |-> total_msgs,
         sent |-> sent,
         received |-> received,
         ratio |-> Ratio(sent, received),
         top_words |-> most_common(Counter(words), TOP_WORDS),
         hour_counts |-> [h \in 0..23 |->
                            Cardinality({i \in 1..Len(non_system) :
                                           Hour(non_system[i].ts[1]) = h})],
         me_react |-> react.me_react,
         them_react |-> react.them_react,
         me_react_avg |-> avg(react.me_react),
         me_react_med |-> median(react.me_react),
         me_react_n |-> Len(react.me_react),
         them_react_avg |-> avg(react.them_react),
         them_react_med |-> median(react.them_react),
         them_react_n |-> Len(react.them_react),
         top_senders |-> most_common(sender_counts, 10)]

\* ------------------------------------------------------------------------
\* main
\* ------------------------------------------------------------------------

\* mutant of Extend: only the messages of the last file are kept
ExtendReplace(all, msgs) == msgs

\* all_messages.extend(msgs)
Extend(all, msgs) == all \o msgs

\* ------------------------------------------------------------------------
\* Inputs
\* ------------------------------------------------------------------------

\* the longest file, in lines, and the longest message list given to the
\* statistics
MaxLines == 3
MaxMsgs == 3

\* the longest list of latency samples given to avg and median
MaxSamples == 4

\* the largest number of files in the folder
MaxFiles == 2

T100000 == <<"10", ":", "00", ":", "00">>

\* "[date, time]"
BracketOnly(d, t) == <<"[", d, ",", " ">> \o t \o <<"]">>

NameText == <<"Bob", ":", " ", "hi">>
Notice == <<"Alice", " ", "added", " ", "Bob">>

\* the lines a file is made of
Lines ==
    { BracketOnly("01.02.2020", T100000),
      BracketOnly("31.02.2020", T100000),
      NameText,
      Notice,
      BracketOnly("01.02.2020", T100000) \o <<" ">> \o NameText,
      BracketOnly("31.02.2020", T100000) \o <<" ">> \o NameText,
      BracketOnly("01.02.2020", T100000) \o <<" ">> \o Notice,
      BracketOnly("31.02.2020", T100000) \o <<" ">> \o Notice,
      <<"01/02/23", ",", " ", "09", ":", "00", " ", "-", " ", "Alice", ":", " ", "hello">>,
      <<"01/02/23", ",", " ", "09", ":", "05", " ", "-", " ">> \o Notice }

SeqsUpTo(S, n) == UNION {[1..k -> S] : k \in 0..n}

\* the timestamps of the messages given to the statistics: 2023-02-01 09:00,
\* five minutes later, exactly the cutoff later, and one second more than
\* the cutoff earlier
T0 == DateTime(2023, 2, 1, 9, 0, 0)
StatTimes == {T0 - REACTION_CUTOFF_DEFAULT - 1, T0, T0 + 300, T0 + REACTION_CUTOFF_DEFAULT}

StatSenders == {<<"Alice">>, <<"Bob">>, <<"Carol">>}

\* messages as parse_chat_text returns them: authored ones, one with an
\* empty sender, and a system notice
StatMessages ==
    {Message(Some(t), Some(sn), <<"Hello", " ", "there">>, FALSE) :
        t \in StatTimes, sn \in StatSenders}
    \cup {Message(Some(T0 + 300), Some(<<>>), <<"hi">>, FALSE),
          Message(Some(T0), None, Notice, TRUE)}

\* three messages of Alice, then five of Bob
ThreeAndFive ==
    [i \in 1..8 |->
        Message(Some(T0 + 300), Some(IF i <= 3 THEN <<"Alice">> ELSE <<"Bob">>),
                <<"hi">>, FALSE)]

\* "01/02/23, <hh>:<mm> - " then the rest of the line
DashLine(hh, mm, rest) == <<"01/02/23", ",", " ", hh, ":", mm, " ", "-", " ">> \o rest

AliceHello == DashLine("09", "00", <<"Alice", ":", " ", "hello">>)
BobHiThere == DashLine("09", "05", <<"Bob", ":", " ", "hi", " ", "there">>)
BobHowAreYou == DashLine("09", "06", <<"Bob", ":", " ", "how", " ", "are", " ", "you">>)

\* the chat of three lines: Alice at 09:00, Bob at 09:05 and at 09:06
ThreeLineChat == <<AliceHello, BobHiThere, BobHowAreYou>>

\* the contents of the files of the folder: an empty file, files of one
\* authored line, a notice before an authored line, an authored line with a
\* continuation line, a two-line header, and the chat of three lines
FileContents ==
    { <<>>,
      <<AliceHello>>,
      <<BobHiThere>>,
      <<DashLine("09", "05", Notice), BobHowAreYou>>,
      <<AliceHello, NameText>>,
      <<BracketOnly("01.02.2020", T100000), NameText>>,
      ThreeLineChat }

\* MY_NAMES: as the file has it, or as a user sets it: empty, or Bob
ConfiguredNames == {MY_NAMES, {}, {<<"Bob">>}}

\* the latency samples, in seconds
SampleValues == {10, 20, 30, 40}

\* the identity sets given to the statistics
NameSets == {{}, {<<"Bob">>}, {<<"Alice">>, <<"Bob">>}}

\* ------------------------------------------------------------------------
\* State
\* ------------------------------------------------------------------------

VARIABLES
    content,              \* parse_chat_text: content.splitlines()
    idx,                  \* the number of lines the loop has read
    messages,             \* the list messages
    current,              \* the dict being built, or None
    pending_ts,           \* the datetime of a two-line header, or None
    hist,                 \* history, per line read: pending_ts and the number of
                          \* messages opened before it, and the Rule it took
    st_messages,          \* stats_for_messages: the argument messages
    my_names,             \* the argument my_names
    REACTION_CUTOFF_SEC,  \* the configured cutoff, None = disabled
    stats,                \* the dict stats_for_messages returns, None before
    txt_files,            \* main: the contents of the files, in sorted path order
    file_idx,             \* the number of files the loop has processed
    msgs,                 \* the list parse_chat_text returned for the file
    all_messages,         \* the list all_messages
    per_file_stats,       \* the list per_file_stats
    total_stats,          \* the dict of the whole folder, None before
    xs,                   \* avg, median: the list of samples
    mean,                 \* what avg(xs) returned, None before
    med,                  \* what median(xs) returned, None before
    pc                    \* where the run is

vars == <<content, idx, messages, current, pending_ts, hist,
          st_messages, my_names, REACTION_CUTOFF_SEC, stats,
          txt_files, file_idx, msgs, all_messages, per_file_stats, total_stats,
          xs, mean, med, pc>>

parser_vars == <<content, idx, messages, current, pending_ts, hist>>
stats_vars == <<st_messages, my_names, REACTION_CUTOFF_SEC, stats>>
main_vars == <<txt_files, file_idx, msgs, all_messages, per_file_stats, total_stats>>
summary_vars == <<xs, mean, med>>

\* main has not run
NoMain ==
    /\ txt_files = <<>>
    /\ file_idx = 0
    /\ msgs = <<>>
    /\ all_messages = <<>>
    /\ per_file_stats = <<>>
    /\ total_stats = None

\* ---- parse_chat_text, one file ----

Init ==
    /\ content \in SeqsUpTo(Lines, MaxLines)
    /\ idx = 0
    /\ messages = <<>>
    /\ current = None
    /\ pending_ts = None
    /\ hist = <<>>
    /\ st_messages = <<>>
    /\ my_names = {}
    /\ REACTION_CUTOFF_SEC = Some(REACTION_CUTOFF_DEFAULT)
    /\ stats = None
    /\ NoMain
    /\ xs = <<>> /\ mean = None /\ med = None
    /\ pc = "loop"

\* one turn of "for raw_line in content.splitlines()"
ReadLine ==
    /\ pc = "loop"
    /\ idx < Len(content)
    /\ LET line == content[idx + 1]
           st == ParseLine([messages |-> messages, current |-> current,
                            pending_ts |-> pending_ts], line)
       IN  /\ messages' = st.messages
           /\ current' = st.current
           /\ pending_ts' = st.pending_ts
           /\ hist' = Append(hist, [pending_ts |-> pending_ts,
                                    opened |-> Len(Flush(messages, current)),
                                    rule |-> Rule(pending_ts, line)])
    /\ idx' = idx + 1
    /\ UNCHANGED <<content, pc, stats_vars, main_vars, summary_vars>>

\* after the loop: if current is not None: messages.append(current)
FinalFlush ==
    /\ pc = "loop"
    /\ idx = Len(content)
    /\ messages' = Flush(messages, current)
    /\ pc' = "filter"
    /\ UNCHANGED <<content, idx, current, pending_ts, hist, stats_vars, main_vars, summary_vars>>

\* messages = [m for m in messages if m["ts"] is not None]; return messages
FilterReturn ==
    /\ pc = "filter"
    /\ messages' = FilterResolved(messages)
    /\ pc' = "done"
    /\ UNCHANGED <<content, idx, current, pending_ts, hist, stats_vars, main_vars, summary_vars>>

Next == ReadLine \/ FinalFlush \/ FilterReturn

Spec == Init /\ [][Next]_vars

\* ---- stats_for_messages, one call ----

InitStats ==
    /\ content = <<>>
    /\ idx = 0
    /\ messages = <<>>
    /\ current = None
    /\ pending_ts = None
    /\ hist = <<>>
    /\ st_messages \in SeqsUpTo(StatMessages, MaxMsgs) \cup {ThreeAndFive}
    /\ my_names \in NameSets
    /\ REACTION_CUTOFF_SEC \in {None, Some(REACTION_CUTOFF_DEFAULT)}
    /\ stats = None
    /\ NoMain
    /\ xs = <<>> /\ mean = None /\ med = None
    /\ pc = "call"

StatsForMessages ==
    /\ pc = "call"
    /\ stats' = Some(stats_for_messages(st_messages, my_names, REACTION_CUTOFF_SEC))
    /\ pc' = "returned"
    /\ UNCHANGED <<parser_vars, st_messages, my_names, REACTION_CUTOFF_SEC, main_vars, summary_vars>>

NextStats == StatsForMessages

SpecStats == InitStats /\ [][NextStats]_vars

\* ---- main, one folder ----

InitMain ==
    /\ content = <<>>
    /\ idx = 0
    /\ messages = <<>>
    /\ current = None
    /\ pending_ts = None
    /\ hist = <<>>
    /\ st_messages = <<>>
    /\ my_names \in ConfiguredNames
    /\ REACTION_CUTOFF_SEC \in {None, Some(REACTION_CUTOFF_DEFAULT)}
    /\ stats = None
    /\ txt_files \in SeqsUpTo(FileContents, MaxFiles) \ {<<>>}
    /\ file_idx = 0
    /\ msgs = <<>>
    /\ all_messages = <<>>
    /\ per_file_stats = <<>>
    /\ total_stats = None
    /\ xs = <<>> /\ mean = None /\ med = None
    /\ pc = "files"

\* a turn of "for path in txt_files", first half:
\* content = open_text_file(path); msgs = parse_chat_text(content)
ParseFile ==
    /\ pc = "files"
    /\ file_idx < Len(txt_files)
    /\ msgs' = parse_chat_text(txt_files[file_idx + 1])
    /\ pc' = "parsed"
    /\ UNCHANGED <<parser_vars, stats_vars, summary_vars, txt_files, file_idx,
                   all_messages, per_file_stats, total_stats>>

\* second half: all_messages.extend(msgs); st = stats_for_messages(msgs, ...);
\* per_file_stats.append(st)
ExtendAndStats ==
    /\ pc = "parsed"
    /\ all_messages' = Extend(all_messages, msgs)
    /\ per_file_stats' = Append(per_file_stats,
                                stats_for_messages(msgs, my_names, REACTION_CUTOFF_SEC))
    /\ file_idx' = file_idx + 1
    /\ pc' = "files"
    /\ UNCHANGED <<parser_vars, stats_vars, summary_vars, txt_files, msgs, total_stats>>

\* after the loop: total_stats = stats_for_messages(all_messages, ...)
TotalStats ==
    /\ pc = "files"
    /\ file_idx = Len(txt_files)
    /\ total_stats' = Some(stats_for_messages(all_messages, my_names,
                                               REACTION_CUTOFF_SEC))
    /\ pc' = "main_done"
    /\ UNCHANGED <<parser_vars, stats_vars, summary_vars, txt_files, file_idx, msgs,
                   all_messages, per_file_stats>>

NextMain == ParseFile \/ ExtendAndStats \/ TotalStats

SpecMain == InitMain /\ [][NextMain]_vars

\* ---- avg and median, one list of samples ----

InitSummary ==
    /\ content = <<>>
    /\ idx = 0
    /\ messages = <<>>
    /\ current = None
    /\ pending_ts = None
    /\ hist = <<>>
    /\ st_messages = <<>>
    /\ my_names = {}
    /\ REACTION_CUTOFF_SEC = Some(REACTION_CUTOFF_DEFAULT)
    /\ stats = None
    /\ NoMain
    /\ xs \in SeqsUpTo(SampleValues, MaxSamples)
    /\ mean = None /\ med = None
    /\ pc = "summary"

\* the entries avg(xs) and median(xs) of the returned dict
Summarise ==
    /\ pc = "summary"
    /\ mean' = avg(xs)
    /\ med' = median(xs)
    /\ pc' = "summarised"
    /\ UNCHANGED <<parser_vars, stats_vars, main_vars, xs>>

NextSummary == Summarise

SpecSummary == InitSummary /\ [][NextSummary]_vars

\* ------------------------------------------------------------------------
\* Properties of parse_chat_text
\* ------------------------------------------------------------------------

\* the line matches one of the header shapes: bracket-only timestamp,
\* single-line authored, single-line system
IsHeaderLine(line) ==
    \/ BRACKET_TS_ONLY(line).ok
    \/ FirstMatch(PATTERNS(line)).ok
    \/ FirstMatch(SYSTEM_PATTERNS(line)).ok

\* the timestamp the date/time tokens of a header line resolve to
HeaderTs(line) ==
    LET m == IF BRACKET_TS_ONLY(line).ok THEN BRACKET_TS_ONLY(line)
             ELSE IF FirstMatch(PATTERNS(line)).ok THEN FirstMatch(PATTERNS(line))
             ELSE FirstMatch(SYSTEM_PATTERNS(line))
    IN  try_parse_dt(m.date, m.time)

ResolvedHeader(line) == IsHeaderLine(line) /\ HeaderTs(line) # None

\* line i was read and opened a Message
OpenedAt(i) == i <= Len(hist) /\ hist[i].rule \in {"pending", "authored", "system"}

\* the Message line i opened, as it was when opened
OpenedBy(i) ==
    ParseLine([messages |-> <<>>, current |-> None, pending_ts |-> hist[i].pending_ts],
              content[i]).current[1]

\* C1: every Message that parse_chat_text returns has a resolved timestamp;
\* a Message opened from a header whose tokens did not resolve is not returned.
C1_ReturnedResolved ==
    pc = "done" => \A k \in 1..Len(messages) : messages[k].ts # None

\* a header with unresolvable tokens opened a Message, and the call returned
\* other Messages
C1_Witness ==
    /\ pc = "done"
    /\ messages # <<>>
    /\ \E i \in 1..Len(content) : OpenedAt(i) /\ OpenedBy(i).ts = None

\* C2 as stated: the number of returned Messages equals the number of lines
\* that match a header shape and whose date/time tokens resolve.
C2_HeaderCount ==
    pc = "done" =>
        Len(messages) = Cardinality({i \in 1..Len(content) : ResolvedHeader(content[i])})

\* C2 amended: the number of returned Messages equals the number of lines that
\* are read while no timestamp is pending, match a header shape and resolve,
\* not counting a bracket-only header that is the last line of the file.
C2_HeaderCountNotPending ==
    pc = "done" =>
        Len(messages) =
            Cardinality({i \in 1..Len(content) :
                            /\ hist[i].pending_ts = None
                            /\ ResolvedHeader(content[i])
                            /\ ~(i = Len(content) /\ BRACKET_TS_ONLY(content[i]).ok)})

\* a header-shaped line was read while a timestamp was pending, and the file
\* ends with a bracket-only header
C2_Witness ==
    /\ pc = "done"
    /\ messages # <<>>
    /\ \E i \in 1..Len(content) : hist[i].pending_ts # None /\ ResolvedHeader(content[i])
    /\ BRACKET_TS_ONLY(content[Len(content)]).ok
    /\ hist[Len(content)].pending_ts = None

\* the file with lines p and p + 1 joined by one blank into a single line
Fuse(c, p) ==
    SubSeq(c, 1, p - 1) \o << c[p] \o <<" ">> \o c[p + 1] >> \o SubSeq(c, p + 2, Len(c))

\* lines p and p + 1 are a two-line header, "[date, time]" then "Name: text",
\* both read, and no timestamp was pending when line p was reached
TwoLineAt(p) ==
    /\ p + 1 <= Len(hist)
    /\ hist[p].pending_ts = None
    /\ BRACKET_TS_ONLY(content[p]).ok
    /\ SENDER_ONLY(content[p + 1]).ok

\* the parse of the two-line form at p agrees with the parse of the
\* single-line form: right after the pair the open Message and the Messages
\* emitted so far are the same, and so is the returned sequence
SameAsSingleLine(p) ==
    LET one == ParseLines(ParseStart, SubSeq(Fuse(content, p), 1, p))
    IN  /\ (pc = "loop" /\ idx = p + 1) =>
                /\ current = one.current
                /\ messages = one.messages
                /\ pending_ts = one.pending_ts
        /\ pc = "done" => messages = parse_chat_text(Fuse(content, p))

\* C3 as stated: for every date and time token, the two lines "[date, time]"
\* and "Name: text" yield the same Message and the same output as the single
\* line "[date, time] Name: text".
C3_TwoLineEqualsSingleLine ==
    \A p \in 1..Len(content) : TwoLineAt(p) => SameAsSingleLine(p)

\* C3 amended: the equivalence holds for every date and time token that
\* resolves to a timestamp.
C3_TwoLineEqualsSingleLineResolved ==
    \A p \in 1..Len(content) :
        (TwoLineAt(p) /\ HeaderTs(content[p]) # None) => SameAsSingleLine(p)

\* a resolvable two-line header after an open Message was parsed to the end
C3_Witness ==
    /\ pc = "done"
    /\ \E p \in 2..Len(content) :
          /\ TwoLineAt(p) /\ HeaderTs(content[p]) # None
          /\ OpenedAt(p - 1)
          /\ Len(messages) >= 2
          /\ ~messages[Len(messages)].is_system

\* the lines that opened a Message with a resolved timestamp, in file order
RECURSIVE OpenerLines(_)
OpenerLines(i) ==
    IF i = 0 THEN <<>>
    ELSE IF OpenedAt(i) /\ OpenedBy(i).ts # None
         THEN Append(OpenerLines(i - 1), i)
         ELSE OpenerLines(i - 1)

\* s is the beginning of t
IsPrefix(s, t) == Len(s) <= Len(t) /\ SubSeq(t, 1, Len(s)) = s

\* C4: Messages are returned in the order of the lines that opened them: the
\* k-th returned Message is the one opened by the k-th opening line, whatever
\* the timestamps are.
C4_FileOrder ==
    pc = "done" =>
        LET op == OpenerLines(Len(content))
        IN  /\ Len(messages) = Len(op)
            /\ \A k \in 1..Len(messages) :
                  LET o == OpenedBy(op[k])
                  IN  /\ messages[k].ts = o.ts
                      /\ messages[k].sender = o.sender
                      /\ messages[k].is_system = o.is_system
                      /\ IsPrefix(o.text, messages[k].text)

\* two Messages were returned and the first has the later timestamp
C4_Witness ==
    /\ pc = "done"
    /\ Len(messages) >= 2
    /\ messages[1].ts[1] > messages[2].ts[1]

\* C5: a line without a colon read while a timestamp is pending opens exactly
\* one Message for the pair: a system notice without sender, whose text is
\* the whole line and whose timestamp is the header's; pending is cleared.
C5_PendingNoColonIsSystem ==
    (pc = "loop" /\ idx >= 1 /\ hist[idx].pending_ts # None
        /\ FindColon(content[idx], 1) = 0)
    => /\ current = Some(Message(HeaderTs(content[idx - 1]), None, content[idx], TRUE))
       /\ pending_ts = None
       /\ BRACKET_TS_ONLY(content[idx - 1]).ok
       /\ Len(Flush(messages, current)) = hist[idx - 1].opened + 1

\* a bracket-only header and a line without a colon were just read, with a
\* Message open before them
C5_Witness ==
    /\ pc = "loop" /\ idx >= 3
    /\ hist[idx].pending_ts # None
    /\ FindColon(content[idx], 1) = 0
    /\ messages # <<>>
    /\ current # None /\ current[1].is_system

\* ------------------------------------------------------------------------
\* Properties of stats_for_messages
\* ------------------------------------------------------------------------

Returned == pc = "returned"

\* message i of the argument is an authored Message: not a system notice,
\* with a non-empty sender
Authored(i) ==
    /\ ~st_messages[i].is_system
    /\ st_messages[i].sender # None
    /\ st_messages[i].sender[1] # <<>>

AuthoredIdx == {i \in 1..Len(st_messages) : Authored(i)}
SystemIdx == {i \in 1..Len(st_messages) : st_messages[i].is_system}

TsOf(i) == st_messages[i].ts[1]
SenderOf(i) == st_messages[i].sender[1]

\* i comes before j in timestamp order, file order deciding ties
Before(i, j) == TsOf(i) < TsOf(j) \/ (TsOf(i) = TsOf(j) /\ i < j)

\* the pairs of authored Messages adjacent in that order
AdjacentPairs ==
    {p \in AuthoredIdx \X AuthoredIdx :
        /\ Before(p[1], p[2])
        /\ ~\E k \in AuthoredIdx : Before(p[1], k) /\ Before(k, p[2])}

Elapsed(p) == TsOf(p[2]) - TsOf(p[1])

\* the sender of message i is in the self set of the result
IsSelf(i) == SenderOf(i) \in stats[1].my_names

Values(seq) == {seq[k] : k \in 1..Len(seq)}

NotSystemNotice(m) == ~m.is_system

\* the metrics a system notice is to leave alone are those of the argument
\* without its system notices
SystemContributesNothing ==
    LET r == stats[1]
        base == stats_for_messages(SelectSeq(st_messages, NotSystemNotice),
                                   my_names, REACTION_CUTOFF_SEC)
    IN  /\ r.sent = base.sent
        /\ r.received = base.received
        /\ r.top_senders = base.top_senders
        /\ r.top_words = base.top_words
        /\ r.hour_counts = base.hour_counts
        /\ r.me_react = base.me_react
        /\ r.them_react = base.them_react

\* C6 as stated: a system notice is counted in the total message volume of
\* the result and contributes nothing to the other metrics.
C6_SystemCountedInTotal ==
    Returned =>
        /\ stats[1].total_msgs = Cardinality(AuthoredIdx \cup SystemIdx)
        /\ SystemContributesNothing

\* C6 amended: a system notice is not counted in the total message count,
\* which counts the authored Messages only, and contributes nothing to the
\* sent/received counts, the per-sender counts, the word table, the hourly
\* histogram or the latency samples.
C6_SystemNotCounted ==
    Returned =>
        /\ stats[1].total_msgs = Cardinality(AuthoredIdx)
        /\ SystemContributesNothing

\* statistics were computed over a system notice and two authored Messages
C6_Witness ==
    /\ Returned
    /\ SystemIdx # {}
    /\ stats[1].total_msgs = 2

\* C7: over the authored Messages in timestamp order (stable on ties), each
\* adjacent pair the cutoff does not skip gives one self-reaction sample iff
\* prev is not self and cur is, one other-reaction sample iff prev is self
\* and cur is not, and none otherwise; every sample is >= 0.
C7_ReactionClassification ==
    Returned =>
        LET r == stats[1]
            kept == {p \in AdjacentPairs : within_cutoff(Elapsed(p), REACTION_CUTOFF_SEC)}
            mine == {p \in kept : ~IsSelf(p[1]) /\ IsSelf(p[2])}
            theirs == {p \in kept : IsSelf(p[1]) /\ ~IsSelf(p[2])}
        IN  /\ Len(r.me_react) = Cardinality(mine)
            /\ Len(r.them_react) = Cardinality(theirs)
            /\ Values(r.me_react) = {Elapsed(p) : p \in mine}
            /\ Values(r.them_react) = {Elapsed(p) : p \in theirs}
            /\ \A x \in Values(r.me_react) \cup Values(r.them_react) : x >= 0

\* the argument is out of timestamp order and both kinds of sample were taken
C7_Witness ==
    /\ Returned
    /\ \E i, j \in AuthoredIdx : i < j /\ TsOf(i) > TsOf(j)
    /\ stats[1].me_react # <<>>
    /\ stats[1].them_react # <<>>

\* C8: with a cutoff of C seconds, a sender-switch pair adjacent in timestamp
\* order is a sample iff its elapsed seconds are <= C; with the cutoff
\* disabled no pair is skipped.
C8_CutoffBoundary ==
    Returned =>
        LET r == stats[1]
            switch == {p \in AdjacentPairs : IsSelf(p[1]) # IsSelf(p[2])}
            recorded == {p \in switch :
                            \/ REACTION_CUTOFF_SEC = None
                            \/ Elapsed(p) <= REACTION_CUTOFF_SEC[1]}
        IN  /\ Len(r.me_react) + Len(r.them_react) = Cardinality(recorded)
            /\ Values(r.me_react) \cup Values(r.them_react)
                  = {Elapsed(p) : p \in recorded}

\* with the cutoff configured, one switch pair is exactly the cutoff apart
\* and one is a second more, and one sample was taken
C8_Witness ==
    /\ Returned
    /\ REACTION_CUTOFF_SEC # None
    /\ \E p, q \in AdjacentPairs :
          /\ IsSelf(p[1]) # IsSelf(p[2]) /\ Elapsed(p) = REACTION_CUTOFF_SEC[1]
          /\ IsSelf(q[1]) # IsSelf(q[2]) /\ Elapsed(q) = REACTION_CUTOFF_SEC[1] + 1
    /\ Len(stats[1].me_react) + Len(stats[1].them_react) = 1

AuthoredSenders == {SenderOf(i) : i \in AuthoredIdx}
CountOfSender(sn) == Cardinality({i \in AuthoredIdx : SenderOf(i) = sn})
FirstOfSender(sn) == CHOOSE i \in AuthoredIdx :
                        SenderOf(i) = sn /\ \A j \in AuthoredIdx : SenderOf(j) = sn => i <= j

\* C9: with an empty identity set the self identity is the sender with the
\* most authored Messages, the first encountered among equals; it is returned
\* as guessed_me and used for the split and the latency classification.
\* Three Messages of Alice and five of Bob give Bob.
C9_SelfInference ==
    (Returned /\ my_names = {}) =>
        LET r == stats[1]
        IN  /\ AuthoredIdx = {} => (r.guessed_me = None /\ r.my_names = {})
            /\ AuthoredIdx # {} =>
                  \E sn \in AuthoredSenders :
                     /\ r.guessed_me = Some(sn)
                     /\ r.my_names = {sn}
                     /\ \A o \in AuthoredSenders \ {sn} :
                           \/ CountOfSender(sn) > CountOfSender(o)
                           \/ /\ CountOfSender(sn) = CountOfSender(o)
                              /\ FirstOfSender(sn) < FirstOfSender(o)
                     /\ r.sent = CountOfSender(sn)
                     /\ LET cfg == stats_for_messages(st_messages, {sn}, REACTION_CUTOFF_SEC)
                        IN  /\ r.received = cfg.received
                            /\ r.me_react = cfg.me_react
                            /\ r.them_react = cfg.them_react
            /\ st_messages = ThreeAndFive => r.guessed_me = Some(<<"Bob">>)

\* statistics were computed, without identity set, over three Messages of
\* Alice followed by five of Bob
C9_Witness ==
    /\ Returned
    /\ my_names = {}
    /\ CountOfSender(<<"Alice">>) = 3
    /\ CountOfSender(<<"Bob">>) = 5
    /\ FirstOfSender(<<"Alice">>) < FirstOfSender(<<"Bob">>)

\* C10: sent counts the authored Messages whose sender is in the self set,
\* received all other authored Messages, so sent + received = total; the
\* ratio is None exactly when received = 0 and sent / received otherwise.
C10_SentReceived ==
    Returned =>
        LET r == stats[1]
        IN  /\ r.sent = Cardinality({i \in AuthoredIdx : IsSelf(i)})
            /\ r.received = Cardinality({i \in AuthoredIdx : ~IsSelf(i)})
            /\ r.sent + r.received = r.total_msgs
            /\ (r.ratio = None) <=> (r.received = 0)
            /\ r.received # 0 => r.ratio = Some(<<r.sent, r.received>>)

\* Messages were sent and none received
C10_Witness ==
    /\ Returned
    /\ stats[1].sent >= 1
    /\ stats[1].received = 0
    /\ Len(st_messages) > stats[1].sent

\* ------------------------------------------------------------------------
\* Properties of the parser's line rules
\* ------------------------------------------------------------------------

\* the loop is about to read a line
AboutToRead == pc = "loop" /\ idx < Len(content)

\* the line the loop is about to read
NextLine == content[idx + 1]

\* C14 as stated: in every state where a timestamp is pending no Message is
\* open, because the bracket-only header that set it emitted the open Message
\* in the same step.
C14_PendingMeansNoneOpen ==
    (pc = "loop" /\ pending_ts # None) => current = None

\* C14 amended: a bracket-only header with a resolvable timestamp read while a
\* Message is open does not emit it: the step leaves the list of Messages and
\* the open Message as they were and only sets the pending timestamp; the open
\* Message is emitted by the flush of the step that resolves the pending
\* header, or by the end-of-file flush, and that flush appends it.
C14_OpenMessageEmittedAtResolution ==
    [][/\ (AboutToRead /\ Rule(pending_ts, NextLine) = "ts_only"
            /\ HeaderTs(NextLine) # None)
          => (/\ messages' = messages
              /\ current' = current
              /\ pending_ts' = HeaderTs(NextLine))
       /\ (pc = "loop" /\ pending_ts # None /\ current # None)
          => (/\ messages' = Append(messages, current[1])
              /\ IF idx < Len(content)
                 THEN pending_ts' = None /\ current' # None
                 ELSE pc' = "filter")]_vars

\* a timestamp is pending while a Message is open
C14_Witness ==
    /\ pc = "loop"
    /\ pending_ts # None
    /\ current # None
    /\ idx >= 2 /\ hist[idx].rule = "ts_only"

\* the step appends the line it reads, after a line break, to the text of the
\* open Message, or drops it when no Message is open, and goes on to the
\* next line
AppendedOrDropped ==
    /\ current' = IF current = None THEN None
                  ELSE Some([current[1] EXCEPT !.text = @ \o <<"\n">> \o NextLine])
    /\ messages' = messages
    /\ pending_ts' = None
    /\ idx' = idx + 1 /\ pc' = "loop"

\* the line about to be read is a bracket-only timestamp line whose date/time
\* does not resolve, read while no timestamp is pending
UnresolvedTsOnly ==
    AboutToRead /\ Rule(pending_ts, NextLine) = "ts_only" /\ HeaderTs(NextLine) = None

\* C15 as stated: every line that opens no header and sets no pending
\* timestamp, a bracket-only line whose date/time does not resolve included,
\* is appended with a line break to the open Message, dropped only when no
\* Message is open.
C15_EveryOtherLineAppended ==
    [][(\/ AboutToRead /\ Rule(pending_ts, NextLine) = "continuation"
        \/ UnresolvedTsOnly)
       => AppendedOrDropped]_vars

\* C15 amended: a line that matches none of the header shapes, read while no
\* timestamp is pending, is appended with a line break to the open Message,
\* dropped only when no Message is open; a bracket-only line whose date/time
\* does not resolve is dropped whether or not a Message is open; in both
\* cases the loop goes on to the next line.
C15_ContinuationAppendedUnresolvedDropped ==
    [][/\ (AboutToRead /\ Rule(pending_ts, NextLine) = "continuation")
          => AppendedOrDropped
       /\ UnresolvedTsOnly
          => (/\ current' = current /\ messages' = messages /\ pending_ts' = None
              /\ idx' = idx + 1 /\ pc' = "loop")]_vars

\* with a Message open, a bracket-only line that does not resolve was read
\* and dropped, then a continuation line was read and appended
C15_Witness ==
    /\ pc = "loop" /\ idx >= 3
    /\ hist[idx - 1].rule = "ts_only" /\ HeaderTs(content[idx - 1]) = None
    /\ hist[idx - 1].opened >= 1
    /\ hist[idx].rule = "continuation"
    /\ current # None
    /\ SubSeq(current[1].text, Len(current[1].text) - Len(content[idx]),
              Len(current[1].text)) = <<"\n">> \o content[idx]

\* line i was read as a single-line header, authored or system, whose
\* date/time tokens do not resolve
UnresolvedSingleLine(i) ==
    /\ i <= Len(hist)
    /\ hist[i].rule \in {"authored", "system"}
    /\ HeaderTs(content[i]) = None

\* line k was read without opening a Message or setting a pending timestamp
Absorbed(k) ==
    \/ hist[k].rule = "continuation"
    \/ hist[k].rule = "ts_only" /\ HeaderTs(content[k]) = None

\* the last of the lines after line i that were read before the next header
RECURSIVE RunEnd(_)
RunEnd(i) ==
    IF i < Len(hist) /\ Absorbed(i + 1) THEN RunEnd(i + 1) ELSE i

\* the file without line i and the lines that follow it up to the next header
WithoutRun(i) ==
    SubSeq(content, 1, i - 1) \o SubSeq(content, RunEnd(i) + 1, Len(content))

\* C16: a single-line header, authored or system, whose date/time tokens do
\* not resolve still flushes the open Message and opens a new one without
\* timestamp; the continuation lines that follow go to the new Message, and
\* the output is what the file without that header and those lines gives:
\* the new Message is absent and the Message open before is emitted unchanged.
C16_UnresolvedHeaderOpensDroppedMessage ==
    /\ (pc = "loop" /\ idx >= 1 /\ UnresolvedSingleLine(idx))
       => /\ current # None /\ current[1].ts = None
          /\ current[1].is_system = (hist[idx].rule = "system")
          /\ Len(messages) = hist[idx].opened
    /\ (pc = "loop" /\ idx >= 2 /\ hist[idx].rule = "continuation"
           /\ UnresolvedSingleLine(idx - 1))
       => /\ current[1].ts = None
          /\ Len(messages) = hist[idx - 1].opened
          /\ IsPrefix(OpenedBy(idx - 1).text \o <<"\n">> \o content[idx],
                      current[1].text)
    /\ pc = "done"
       => \A i \in 1..Len(content) :
             UnresolvedSingleLine(i) => messages = parse_chat_text(WithoutRun(i))

\* a Message was open when a single-line header that does not resolve was
\* read, a continuation line followed it, and the call returned a Message
C16_Witness ==
    /\ pc = "done"
    /\ messages # <<>>
    /\ \E i \in 2..(Len(content) - 1) :
          /\ UnresolvedSingleLine(i)
          /\ hist[i].opened >= 1
          /\ hist[i + 1].rule = "continuation"

\* the line has the "sender: text" shape: a colon after at least one character
HasSenderTextShape(line) == FindColon(line, 1) >= 2

\* C17: whenever a timestamp is pending, the very next line clears it and
\* opens exactly one Message carrying the pending timestamp, authored if the
\* line has the "sender: text" shape and a system notice otherwise, even if
\* the line matches a header shape by itself; a pending timestamp does not
\* survive the line after it and that line sets no new pending timestamp.
C17_PendingBoundByNextLine ==
    (pc = "loop" /\ idx >= 1 /\ hist[idx].pending_ts # None)
    => /\ pending_ts = None
       /\ hist[idx].rule = "pending"
       /\ idx >= 2 /\ hist[idx - 1].pending_ts = None
       /\ hist[idx].pending_ts = HeaderTs(content[idx - 1])
       /\ current # None
       /\ current[1].ts = hist[idx].pending_ts
       /\ current[1].is_system = ~HasSenderTextShape(content[idx])
       /\ (current[1].sender # None) = HasSenderTextShape(content[idx])
       /\ current[1].is_system => current[1].text = content[idx]
       /\ Len(messages) = hist[idx].opened
       /\ Len(Flush(messages, current)) = hist[idx - 1].opened + 1

\* a single-line authored header was read while a timestamp was pending and a
\* Message was open: it opened an authored Message with the pending timestamp
C17_Witness ==
    /\ pc = "loop" /\ idx >= 3
    /\ hist[idx].pending_ts # None
    /\ hist[idx].opened >= 1
    /\ FirstMatch(PATTERNS(content[idx])).ok
    /\ pending_ts = None
    /\ current # None /\ ~current[1].is_system
    /\ messages # <<>>

\* the lines that opened a Message, in file order, among the first i lines
RECURSIVE AllOpeners(_)
AllOpeners(i) ==
    IF i = 0 THEN <<>>
    ELSE IF OpenedAt(i) THEN Append(AllOpeners(i - 1), i) ELSE AllOpeners(i - 1)

\* m is the Message line i opened, with the continuation text it got since
IsMessageOf(m, i) ==
    LET o == OpenedBy(i)
    IN  /\ m.ts = o.ts /\ m.sender = o.sender /\ m.is_system = o.is_system
        /\ IsPrefix(o.text, m.text)

\* a Message is open: opened by a line and not emitted yet
IsOpen == pc = "loop" /\ current # None

\* every Message opened so far is either the one open Message, the last one
\* opened, or was emitted once, in its place; none is open after the loop
EmittedOnce ==
    pc \in {"loop", "filter"} =>
        LET op == AllOpeners(idx)
            emitted == IF IsOpen THEN Len(op) - 1 ELSE Len(op)
        IN  /\ Len(messages) = emitted
            /\ \A k \in 1..emitted : IsMessageOf(messages[k], op[k])
            /\ (IsOpen => IsMessageOf(current[1], op[Len(op)]))
            /\ (pc = "filter" => idx = Len(content))

\* C19: every Message opened with a resolved timestamp is emitted exactly
\* once, when a later line opens the next Message or at the end of the file;
\* at most one Message is open at any time, none is left to emit after the
\* end of the file, and an emitted Message is not changed by later lines.
C19_EmittedExactlyOnce ==
    /\ [](/\ EmittedOnce
          /\ (pc = "done" =>
                LET op == OpenerLines(Len(content))
                IN  /\ Len(messages) = Len(op)
                    /\ \A k \in 1..Len(op) : IsMessageOf(messages[k], op[k])))
    /\ [][/\ (pc = "loop" => IsPrefix(messages, messages'))
           /\ (pc = "filter" => messages' = FilterResolved(messages))]_vars

\* two Messages were open in turn, the first with continuation text; both
\* were emitted, the second by the flush at the end of the file
C19_Witness ==
    /\ pc = "filter"
    /\ Len(messages) = 2
    /\ messages[1].ts # None /\ messages[2].ts # None
    /\ hist[2].rule = "continuation"
    /\ hist[Len(hist)].rule \in {"pending", "authored", "system"}

\* the file ends with a bracket-only header that set a pending timestamp
EndsPending ==
    /\ idx = Len(content) /\ idx >= 1
    /\ hist[idx].rule = "ts_only"
    /\ HeaderTs(content[idx]) # None

\* C20: a timestamp still pending at the end of the file is discarded and
\* gives no Message; the Message that was open before the last header is
\* emitted by the end-of-file flush with its text unchanged, so the output is
\* the one of the file without its last line.
C20_PendingAtEndDiscarded ==
    /\ (pc = "filter" /\ EndsPending)
       => /\ pending_ts = HeaderTs(content[idx])
          /\ Len(messages) = hist[idx].opened
          /\ (current # None => messages[Len(messages)] = current[1])
    /\ (pc = "done" /\ EndsPending)
       => messages = parse_chat_text(SubSeq(content, 1, idx - 1))

\* the last line is a bracket-only header read while a Message with
\* continuation text was open, and that Message was returned
C20_Witness ==
    /\ pc = "done"
    /\ EndsPending
    /\ pending_ts # None
    /\ idx >= 3 /\ hist[idx - 1].rule = "continuation"
    /\ Len(messages) = 1
    /\ messages[1] = current[1]

\* ------------------------------------------------------------------------
\* Properties of avg and median
\* ------------------------------------------------------------------------

\* the pairs <<a, b>> and <<c, d>> are the same quotient
SameQuotient(p, q) == p[1] * q[2] = q[1] * p[2]

\* the k-th smallest of the samples, counted with repetitions
Kth(samples, k) ==
    CHOOSE v \in {samples[i] : i \in 1..Len(samples)} :
        /\ Cardinality({i \in 1..Len(samples) : samples[i] < v}) < k
        /\ k <= Cardinality({i \in 1..Len(samples) : samples[i] <= v})

\* the lists that hold the same samples as xs in another order
Reordered ==
    {ys \in [1..Len(xs) -> {xs[i] : i \in 1..Len(xs)}] :
        \A v \in {xs[i] : i \in 1..Len(xs)} :
            Cardinality({i \in 1..Len(xs) : ys[i] = v})
                = Cardinality({i \in 1..Len(xs) : xs[i] = v})}

\* C13: the median of an odd number of samples is the middle one after
\* sorting, the median of an even number is the mean of the two central
\* ones, and the median and the mean of no samples are None; {10, 20, 30}
\* gives 20 and {10, 20, 30, 40} gives 25 in whatever order they are recorded.
C13_Median ==
    pc = "summarised" =>
        LET n == Len(xs)
        IN  /\ (n = 0 => med = None /\ mean = None)
            /\ (n > 0 => med # None /\ mean # None)
            /\ (n % 2 = 1 => SameQuotient(med[1], <<Kth(xs, (n + 1) \div 2), 1>>))
            /\ (n > 0 /\ n % 2 = 0 =>
                    SameQuotient(med[1],
                                 <<Kth(xs, n \div 2) + Kth(xs, n \div 2 + 1), 2>>))
            /\ (<<10, 20, 30>> \in Reordered => SameQuotient(med[1], <<20, 1>>))
            /\ (<<10, 20, 30, 40>> \in Reordered => SameQuotient(med[1], <<25, 1>>))
            /\ \A ys \in Reordered : median(ys) = med

\* the median of 40, 10, 30, 20, recorded in that order, was computed
C13_Witness ==
    /\ pc = "summarised"
    /\ xs = <<40, 10, 30, 20>>
    /\ med = Some(<<50, 2>>)
    /\ mean = Some(<<100, 4>>)

\* ------------------------------------------------------------------------
\* Properties of the reaction latencies with several senders
\* ------------------------------------------------------------------------

\* the pairs of authored Messages adjacent in timestamp order whose senders
\* differ and that the cutoff does not skip
SenderSwitches ==
    {p \in AdjacentPairs :
        /\ SenderOf(p[1]) # SenderOf(p[2])
        /\ within_cutoff(Elapsed(p), REACTION_CUTOFF_SEC)}

\* C18 as stated: every pair of timestamp-adjacent authored Messages whose
\* senders differ gives exactly one sample, of the side that spoke second,
\* also with more than two senders or more than one self name.
C18_EverySenderSwitchSampled ==
    Returned =>
        LET r == stats[1]
        IN  /\ Len(r.me_react) + Len(r.them_react) = Cardinality(SenderSwitches)
            /\ Len(r.me_react) = Cardinality({p \in SenderSwitches : IsSelf(p[2])})
            /\ Len(r.them_react) = Cardinality({p \in SenderSwitches : ~IsSelf(p[2])})

\* C18 amended: a pair of timestamp-adjacent authored Messages whose senders
\* differ gives exactly one sample, of the side that spoke second, when one
\* of the two senders is a self name and the other is not; it gives no sample
\* when both senders are self names or neither is.
C18_SideSwitchSampled ==
    Returned =>
        LET r == stats[1]
            switches == SenderSwitches
            sides == {p \in switches : IsSelf(p[1]) # IsSelf(p[2])}
            mine == {p \in sides : IsSelf(p[2])}
            theirs == sides \ mine
        IN  /\ Len(r.me_react) + Len(r.them_react)
                  = Cardinality(switches) - Cardinality(switches \ sides)
            /\ Len(r.me_react) = Cardinality(mine)
            /\ Len(r.them_react) = Cardinality(theirs)
            /\ Values(r.me_react) = {Elapsed(p) : p \in mine}
            /\ Values(r.them_react) = {Elapsed(p) : p \in theirs}

\* three senders: a change between two senders that are not self gave no
\* sample, the change to the self sender after it gave one
C18_Witness ==
    /\ Returned
    /\ Cardinality({SenderOf(i) : i \in AuthoredIdx}) = 3
    /\ \E p \in SenderSwitches : ~IsSelf(p[1]) /\ ~IsSelf(p[2])
    /\ Len(stats[1].me_react) = 1
    /\ stats[1].them_react = <<>>

\* ------------------------------------------------------------------------
\* Properties of parsing and statistics together, and of main
\* ------------------------------------------------------------------------

\* the statistics of the file are those the three-line chat is to give
ThreeLineChatStats(st) ==
    /\ st.total_msgs = 3
    /\ st.sent = 2
    /\ st.received = 1
    /\ st.me_react_n = 1 /\ st.me_react = <<300>>
    /\ st.them_react_n = 0 /\ st.them_react = <<>>
    /\ \A h \in 0..23 : st.hour_counts[h] = IF h = 9 THEN 3 ELSE 0

\* C11: parsing the lines "01/02/23, 09:00 - Alice: hello", "01/02/23, 09:05
\* - Bob: hi there", "01/02/23, 09:06 - Bob: how are you" and computing the
\* statistics with self set {Bob} and the cutoff disabled gives total 3,
\* sent 2, received 1, one self-reaction sample of 300 seconds, no
\* other-reaction sample, 3 in hour bucket 9 and 0 in every other bucket.
C11_ThreeLineChat ==
    (my_names = {<<"Bob">>} /\ REACTION_CUTOFF_SEC = None)
    => \A i \in 1..Len(per_file_stats) :
          txt_files[i] = ThreeLineChat => ThreeLineChatStats(per_file_stats[i])

\* the three-line chat was the only file, with self set {Bob} and no cutoff,
\* and its statistics were computed
C11_Witness ==
    /\ pc = "main_done"
    /\ txt_files = <<ThreeLineChat>>
    /\ my_names = {<<"Bob">>} /\ REACTION_CUTOFF_SEC = None
    /\ Len(all_messages) = 3
    /\ per_file_stats[1].me_react = <<300>>
    /\ per_file_stats[1].me_react_med = Some(<<300, 1>>)

\* the Messages of the first n files, file after file
RECURSIVE ParsedUpTo(_)
ParsedUpTo(n) ==
    IF n = 0 THEN <<>> ELSE ParsedUpTo(n - 1) \o parse_chat_text(txt_files[n])

\* the sum of the total message counts of the first n per-file results
RECURSIVE SumOfTotals(_)
SumOfTotals(n) ==
    IF n = 0 THEN 0 ELSE SumOfTotals(n - 1) + per_file_stats[n].total_msgs

\* C12: the aggregate statistics are one run of stats_for_messages over the
\* concatenation, in file processing order, of the Messages of every file;
\* the Messages of a file are appended once, after its parse; the aggregate
\* total message count is the sum of the per-file totals.
C12_AggregateOverConcatenation ==
    /\ all_messages = ParsedUpTo(file_idx)
    /\ (pc = "parsed" => msgs = parse_chat_text(txt_files[file_idx + 1]))
    /\ Len(per_file_stats) = file_idx
    /\ \A i \in 1..file_idx :
          per_file_stats[i] = stats_for_messages(parse_chat_text(txt_files[i]),
                                                 my_names, REACTION_CUTOFF_SEC)
    /\ (pc = "main_done")
       => /\ file_idx = Len(txt_files)
          /\ total_stats = Some(stats_for_messages(ParsedUpTo(Len(txt_files)),
                                                    my_names, REACTION_CUTOFF_SEC))
          /\ total_stats[1].total_msgs = SumOfTotals(Len(txt_files))

\* two files were processed and the aggregate has a latency sample that no
\* file has: the pair that spans the two files
C12_Witness ==
    /\ pc = "main_done"
    /\ Len(txt_files) = 2
    /\ per_file_stats[1].total_msgs >= 1 /\ per_file_stats[2].total_msgs >= 1
    /\ per_file_stats[1].me_react_n + per_file_stats[2].me_react_n
          + per_file_stats[1].them_react_n + per_file_stats[2].them_react_n = 0
    /\ total_stats[1].me_react_n + total_stats[1].them_react_n = 1

====
